---- MODULE Spec2Model ----
(***************************************************************************)
(* A model of the two batch scripts of the repository:                     *)
(*   sales_auto.py  - weekly sales: date prep, numeric hygiene, dedupe,    *)
(*                    TTM / LY / PY week mapping, crosstabs, the           *)
(*                    analytical table, the Prophet input and the          *)
(*                    per-franchise Prophet forecast merged onto actuals;  *)
(*   media_auto.py  - media spend: franchise remapping, partner tags,      *)
(*                    summaries.                                           *)
(* Every script is a straight-line program; one action models one section  *)
(* of the script, and pc names the section that runs next.                 *)
(* A script may be invoked again over the same input; run counts the       *)
(* invocations.                                                            *)
(*                                                                         *)
(* Dates are day ordinals. Null cells: NaT (dates), NaN (numbers),         *)
(* NoName (text). Ratios are exact rationals in lowest terms; NA is the    *)
(* null ratio.                                                             *)
(***************************************************************************)
EXTENDS Integers, Sequences, FiniteSets, TLC

VARIABLES
    script,           \* which script this run executes: "sales" or "media"
    pc,               \* the section that runs next; "done", "aborted"
    error,            \* the exception that ended the run; NoValue if none
    sheet,            \* the input sheet: its columns and its rows
    columns,          \* the column names of df
    df,               \* sales: the working frame (set of rows once deduplicated)
    dup_count_before, \* sales: number of exact duplicate rows removed
    week_map,         \* sales: distinct week -> bucket
    df_out,           \* sales: the included rows
    summ_wm_fr,       \* sales: sums by (Week Mapping, Franchise)
    sales_ct,         \* sales: Franchise -> [LY, TTM] of Sales
    units_ct,         \* sales: Franchise -> [LY, TTM] of Units
    analytical_tbl,   \* sales: the analytical table (sequence of rows)
    prophet_tbl,      \* sales: (Week, Franchise, Sum_Units), sorted
    results,          \* sales: the forecasts fitted so far (sequence)
    merged_dataset,   \* sales: dataset left-merged with the forecasts
    media,            \* media: the working frame and its derived tables
    written,          \* names of the output files written so far
    run,              \* the number of this invocation of the script, from 1
    previous,         \* the tables the invocation before this one ended with
    argsort           \* what the argsort of this build has returned: table -> order

vars == <<script, pc, error, sheet, columns, df, dup_count_before, week_map, df_out,
          summ_wm_fr, sales_ct, units_ct, analytical_tbl, prophet_tbl,
          results, merged_dataset, media, written,
          run, previous, argsort>>

(***************************************************************************)
(* Bounds of the model.                                                    *)
(***************************************************************************)
\* the longest weekly history of the base franchise
MaxWeeks == 106
\* the number of further rows of the sheet
MaxExtra == 2
\* the number of invocations of a script over one input snapshot
MaxRuns == 2

(***************************************************************************)
(* Program constants.                                                      *)
(***************************************************************************)
\* `if i < 52` : the first 52 positions are TTM
TTM_WEEKS == 52
\* `elif i < 104` : positions 52..103 are LY
LY_LIMIT == 104
\* m.make_future_dataframe(periods=365)
PERIODS == 365

RUN_PROPHET_EXPORT == TRUE
RUN_PROPHET_MODEL == TRUE

INPUT_XLSX == "Biolage Sales Data.xlsx"
INPUT_MEDIA_XLSX == "Biolage Media Data.xlsx"
OUTPUT_XLSX == "Biolage Sales Data_Filtered.xlsx"
OUTPUT_ANALYTICAL == "Analytical Table.xlsx"
OUTPUT_PROPHET_IN == "Biolage Prophet Input.xlsx"
OUTPUT_PROPHET_OUT == "Biolage Prophet Output.xlsx"
OUTPUT_MEDIA_FILE == "Biolage Media Processed.xlsx"

(***************************************************************************)
(* Null values.                                                            *)
(***************************************************************************)
\* pd.NaT: what pd.to_datetime(errors='coerce') gives for an unparseable date
NaT == -1
\* NaN: what pd.to_numeric(errors='coerce') gives for an unparseable number
NaN == -999999
\* an empty text cell
NoName == "NaN"
\* a column that does not exist yet
NoValue == ""

(***************************************************************************)
(* Arithmetic helpers.                                                     *)
(***************************************************************************)
Abs(x) == IF x < 0 THEN -x ELSE x

RECURSIVE Gcd(_, _)
Gcd(a, b) == IF b = 0 THEN a ELSE Gcd(b, a % b)

\* pd.NA as the value of a ratio column
NA == [num |-> 0, den |-> 0]

\* the value of n / d for d # 0, as a rational in lowest terms
Ratio(n, d) ==
    LET g == Gcd(Abs(n), Abs(d))
        s == IF d < 0 THEN -1 ELSE 1
    IN  [num |-> s * (n \div g), den |-> s * (d \div g)]

\* the sum of two ratios; NA if either is NA
RatAdd(p, q) ==
    IF p = NA \/ q = NA THEN NA
    ELSE Ratio(p.num * q.den + q.num * p.den, p.den * q.den)

\* the ratios of a sequence of ratios, summed left to right
RECURSIVE RatSum(_)
RatSum(s) == IF s = <<>> THEN Ratio(0, 1)
             ELSE RatAdd(RatSum(SubSeq(s, 1, Len(s) - 1)), s[Len(s)])

\* Series.sum(): NaN is skipped, the empty sum is 0
RECURSIVE SumSkipNa(_, _)
SumSkipNa(rows, col) ==
    IF rows = {} THEN 0
    ELSE LET r == CHOOSE x \in rows : TRUE
         IN  (IF r[col] = NaN THEN 0 ELSE r[col]) + SumSkipNa(rows \ {r}, col)

\* the sum of a column over the rows of a sequence
RECURSIVE SeqSum(_, _)
SeqSum(s, col) == IF s = <<>> THEN 0
                  ELSE SeqSum(SubSeq(s, 1, Len(s) - 1), col) + s[Len(s)][col]

Range(s) == {s[i] : i \in 1..Len(s)}

(***************************************************************************)
(* The input sheets.                                                       *)
(***************************************************************************)
\* the columns sales_auto.py reads by name, and the two it treats as optional
RequiredColumns == {"Week End", "ST_Units", "ST_Retail_$", "Franchise"}
SheetColumns == RequiredColumns \cup {"Week", "Year"}

\* a date cell holding a timestamp: a day and a time of day
Stamp(day, tod) == [kind |-> "datetime", day |-> day, tod |-> tod]
\* a number cell
Num(v) == [kind |-> "number", val |-> v]
\* a cell holding text that is neither a date nor a number
Text == [kind |-> "text", day |-> 0, tod |-> 0]
TextNum == [kind |-> "text", val |-> 0]

\* the day ordinal of the k-th weekly date
WeekEnding(k) == 7 * k

\* the base franchise: one row per week, weeks 1..n, the same measures
BaseRow(k) == [WeekEnd |-> Stamp(WeekEnding(k), 0), Franchise |-> "A",
               ST_Retail |-> Num(1), ST_Units |-> Num(1)]
BaseRows(n) == [k \in 1..n |-> BaseRow(k)]

\* history lengths around the bucket boundaries
WeekCounts == {0, 1, 2, 10, TTM_WEEKS, TTM_WEEKS + 1, LY_LIMIT, LY_LIMIT + 1, MaxWeeks}

\* further rows: the oldest, a middle and a new latest week, a time of day, an
\* unparseable date, three franchises and an empty one, measures that are zero,
\* text, or differ between sales and units
ExtraRows ==
    [WeekEnd : {Stamp(WeekEnding(1), 1), Stamp(WeekEnding(TTM_WEEKS + 1), 0),
                Stamp(WeekEnding(MaxWeeks + 1), 0), Text},
     Franchise : {"A", "B", "C"},
     ST_Retail : {Num(1)},
     ST_Units : {Num(1)}]
    \cup
    {[WeekEnd |-> Stamp(WeekEnding(MaxWeeks + 1), 0), Franchise |-> NoName,
      ST_Retail |-> Num(1), ST_Units |-> Num(1)],
     [WeekEnd |-> Stamp(WeekEnding(MaxWeeks + 1), 0), Franchise |-> "B",
      ST_Retail |-> TextNum, ST_Units |-> Num(2)],
     [WeekEnd |-> Stamp(WeekEnding(1), 0), Franchise |-> "B",
      ST_Retail |-> Num(3), ST_Units |-> Num(0)],
     [WeekEnd |-> Stamp(WeekEnding(TTM_WEEKS + 1), 0), Franchise |-> "B",
      ST_Retail |-> Num(0), ST_Units |-> Num(2)]}

RECURSIVE SetToSeq(_)
SetToSeq(S) == IF S = {} THEN <<>>
               ELSE LET x == CHOOSE y \in S : TRUE IN <<x>> \o SetToSeq(S \ {x})

\* the subsets of S of at most k elements
RECURSIVE SubsetsUpTo(_, _)
SubsetsUpTo(S, k) ==
    IF k = 0 THEN {{}}
    ELSE LET P == SubsetsUpTo(S, k - 1) IN P \cup {T \cup {x} : T \in P, x \in S}

ExtraSets == SubsetsUpTo(ExtraRows, MaxExtra)

\* a sheet row as read_excel returns it: only the sheet's columns hold values
ReadRow(r, cols) ==
    [WeekEnd   |-> IF "Week End" \in cols THEN r.WeekEnd ELSE NoValue,
     Franchise |-> IF "Franchise" \in cols THEN r.Franchise ELSE NoValue,
     ST_Retail |-> IF "ST_Retail_$" \in cols THEN r.ST_Retail ELSE NoValue,
     ST_Units  |-> IF "ST_Units" \in cols THEN r.ST_Units ELSE NoValue]

\* df = pd.read_excel(INPUT_XLSX, sheet_name=INPUT_SHEET)
ReadExcel(n, extra, cols) ==
    LET rows == BaseRows(n) \o SetToSeq(extra)
    IN  [i \in 1..Len(rows) |-> ReadRow(rows[i], cols)]

(***************************************************************************)
(* sales_auto.py: date prep, numeric hygiene, dedupe.                      *)
(***************************************************************************)
\* pd.to_datetime(c, errors='coerce') then .dt.normalize(): the day, or NaT
ToDatetimeNormalize(c) == IF c.kind = "datetime" THEN c.day ELSE NaT

\* pd.to_numeric(c, errors='coerce'): the number, or NaN
ToNumeric(c) == IF c.kind = "number" THEN c.val ELSE NaN

\* an uncaught exception ends the script where it is raised
Abort(exception) ==
    /\ pc' = "aborted"
    /\ error' = exception
    /\ UNCHANGED <<run, previous, argsort, script, sheet, columns, df, dup_count_before, week_map,
                   df_out, summ_wm_fr, sales_ct, units_ct, analytical_tbl,
                   prophet_tbl, results, merged_dataset, media, written>>

\* lines 28-31: parse and normalize 'Week End', drop an old 'Week', rename
DatePrep ==
    /\ script = "sales" /\ pc = "date_prep"
    /\ \/ /\ "Week End" \notin columns            \* KeyError at line 28
          /\ Abort("KeyError: 'Week End'")
       \/ /\ "Week End" \in columns
          /\ df' = [i \in 1..Len(df) |->
                      [Week |-> ToDatetimeNormalize(df[i].WeekEnd),
                       Franchise |-> df[i].Franchise,
                       ST_Retail |-> df[i].ST_Retail,
                       ST_Units |-> df[i].ST_Units]]
          /\ columns' = (columns \ {"Week End"}) \cup {"Week"}
          /\ pc' = "numeric"
          /\ UNCHANGED <<run, previous, argsort, script, error, sheet, dup_count_before, week_map, df_out,
                         summ_wm_fr, sales_ct, units_ct, analytical_tbl,
                         prophet_tbl, results, merged_dataset, media, written>>

\* df.drop_duplicates() then sort_values('Week', ascending=False): the distinct
\* rows. Every later step groups, sums or takes unique values, so the frame is
\* kept as the set of its rows.
DropDuplicates(rows) == Range(rows)

\* lines 36-44: coerce the measures, count and drop exact duplicates, sort
NumericHygiene ==
    /\ script = "sales" /\ pc = "numeric"
    /\ \/ /\ ~({"ST_Units", "ST_Retail_$"} \subseteq columns)  \* KeyError at 36 or 37
          /\ Abort(IF "ST_Units" \notin columns THEN "KeyError: 'ST_Units'"
                                                ELSE "KeyError: 'ST_Retail_$'")
       \/ /\ {"ST_Units", "ST_Retail_$"} \subseteq columns
          /\ LET coerced == [i \in 1..Len(df) |->
                               [Week |-> df[i].Week,
                                Franchise |-> df[i].Franchise,
                                ST_Retail |-> ToNumeric(df[i].ST_Retail),
                                ST_Units |-> ToNumeric(df[i].ST_Units),
                                WeekMapping |-> NoValue,
                                Include |-> NoValue]]
             IN  /\ dup_count_before' = Len(coerced) - Cardinality(Range(coerced))
                 /\ df' = DropDuplicates(coerced)
          /\ pc' = "week_mapping"
          /\ UNCHANGED <<run, previous, argsort, script, error, sheet, columns, week_map, df_out, summ_wm_fr,
                         sales_ct, units_ct, analytical_tbl, prophet_tbl,
                         results, merged_dataset, media, written>>

(***************************************************************************)
(* sales_auto.py: week mapping (TTM / LY / PY) and the Include flag.       *)
(***************************************************************************)
\* df['Week'].dropna().unique()
UniqueWeeks(rows) == {r.Week : r \in rows} \ {NaT}

\* the position in sorted(unique_weeks), without reverse=True
PositionAscending(weeks, wk) == Cardinality({v \in weeks : v < wk})

\* the position of wk in sorted(unique_weeks, reverse=True), counted from 0
Position(weeks, wk) == Cardinality({v \in weeks : v > wk})

\* the boundaries taken one position late
BucketOffByOne(i) == IF i <= TTM_WEEKS THEN "TTM"
                     ELSE IF i <= LY_LIMIT THEN "LY"
                     ELSE "PY"

\* lines 53-58: the bucket of position i
Bucket(i) == IF i < TTM_WEEKS THEN "TTM"
             ELSE IF i < LY_LIMIT THEN "LY"
             ELSE "PY"

\* lines 49-58: week_map
WeekMap(rows) ==
    LET unique_weeks == UniqueWeeks(rows)
    IN  [wk \in unique_weeks |-> Bucket(Position(unique_weeks, wk))]

\* Series.map(week_map): a week that is no key (NaT) maps to a null
MapWeek(wm, wk) == IF wk \in DOMAIN wm THEN wm[wk] ELSE NoName

\* line 63: 'Include' if x in {'TTM', 'LY'} else 'Exclude'
IncludeFlag(x) == IF x \in {"TTM", "LY"} THEN "Include" ELSE "Exclude"

\* lines 49-63
WeekMapping ==
    /\ script = "sales" /\ pc = "week_mapping"
    /\ week_map' = WeekMap(df)
    /\ df' = {[r EXCEPT !.WeekMapping = MapWeek(week_map', r.Week),
                        !.Include = IncludeFlag(MapWeek(week_map', r.Week))] : r \in df}
    /\ columns' = columns \cup {"Week Mapping", "Include"}
    /\ pc' = "subset"
    /\ UNCHANGED <<run, previous, argsort, script, error, sheet, dup_count_before, df_out, summ_wm_fr, sales_ct,
                   units_ct, analytical_tbl, prophet_tbl, results,
                   merged_dataset, media, written>>

(***************************************************************************)
(* sales_auto.py: subset, summarize, crosstabs.                            *)
(***************************************************************************)
\* the rows without the Include filter
SubsetUnfiltered(rows) ==
    {[Week |-> r.Week, WeekMapping |-> r.WeekMapping, Franchise |-> r.Franchise,
      Sales |-> r.ST_Retail, Units |-> r.ST_Units, Include |-> r.Include] : r \in rows}

\* lines 72-76: the included rows, measures renamed
SubsetIncluded(rows) ==
    {[Week |-> r.Week, WeekMapping |-> r.WeekMapping, Franchise |-> r.Franchise,
      Sales |-> r.ST_Retail, Units |-> r.ST_Units, Include |-> r.Include] :
        r \in {x \in rows : x.Include = "Include"}}

\* the subset taken without reading the 'Franchise' column by name
SubsetUnchecked ==
    /\ script = "sales" /\ pc = "subset"
    /\ df_out' = {[Week |-> r.Week, WeekMapping |-> r.WeekMapping,
                   Franchise |-> r.Franchise, Sales |-> r.ST_Retail,
                   Units |-> r.ST_Units, Include |-> r.Include] :
                     r \in {x \in df : x.Include = "Include"}}
    /\ pc' = "summarize"
    /\ UNCHANGED <<run, previous, argsort, script, error, sheet, columns, df, dup_count_before,
                   week_map, summ_wm_fr, sales_ct, units_ct,
                   analytical_tbl, prophet_tbl, results, merged_dataset,
                   media, written>>

\* lines 68-80
Subset ==
    /\ script = "sales" /\ pc = "subset"
    /\ \/ /\ "Franchise" \notin columns           \* KeyError at line 73
          /\ Abort("KeyError: 'Franchise'")
       \/ /\ "Franchise" \in columns
          /\ df_out' = SubsetIncluded(df)
          /\ pc' = "summarize"
          /\ UNCHANGED <<run, previous, argsort, script, error, sheet, columns, df, dup_count_before,
                         week_map, summ_wm_fr, sales_ct, units_ct,
                         analytical_tbl, prophet_tbl, results, merged_dataset,
                         media, written>>

\* groupby(['Week Mapping', 'Franchise'])[['Sales', 'Units']].sum(): one row per
\* key that occurs; rows with a null key are dropped
Summarize(rows) ==
    LET keyed == {r \in rows : r.Franchise # NoName /\ r.WeekMapping # NoName}
        keys == {<<r.WeekMapping, r.Franchise>> : r \in keyed}
        grp(k) == {r \in keyed : r.WeekMapping = k[1] /\ r.Franchise = k[2]}
    IN  {[WeekMapping |-> k[1], Franchise |-> k[2],
          Sales |-> SumSkipNa(grp(k), "Sales"),
          Units |-> SumSkipNa(grp(k), "Units")] : k \in keys}

\* lines 85-87
SummarizeStep ==
    /\ script = "sales" /\ pc = "summarize"
    /\ summ_wm_fr' = Summarize(df_out)
    /\ pc' = "cross_tabs"
    /\ UNCHANGED <<run, previous, argsort, script, error, sheet, columns, df, dup_count_before, week_map,
                   df_out, sales_ct, units_ct, analytical_tbl, prophet_tbl,
                   results, merged_dataset, media, written>>

\* the value pivot_table leaves in a cell with no group
fill_value == 0

\* pivot_table(index='Franchise', columns='Week Mapping', values=v,
\* aggfunc='sum', fill_value=0): franchise -> (bucket that occurs -> sum)
PivotTable(summ, v) ==
    LET index == {g.Franchise : g \in summ}
        cols == {g.WeekMapping : g \in summ}
        cell(f, b) == LET grp == {g \in summ : g.Franchise = f /\ g.WeekMapping = b}
                      IN  IF grp = {} THEN fill_value ELSE SumSkipNa(grp, v)
    IN  [f \in index |-> [b \in cols |-> cell(f, b)]]

\* lines 102-106: a bucket column that is missing is added, holding 0
GuaranteeColumns(pvt) ==
    [f \in DOMAIN pvt |->
        [b \in (DOMAIN pvt[f]) \cup {"LY", "TTM"} |->
            IF b \in DOMAIN pvt[f] THEN pvt[f][b] ELSE 0]]

\* lines 109-110: pvt[['LY', 'TTM']]
SelectLyTtm(pvt) == [f \in DOMAIN pvt |-> [LY |-> pvt[f]["LY"], TTM |-> pvt[f]["TTM"]]]

CrossTab(summ, v) == SelectLyTtm(GuaranteeColumns(PivotTable(summ, v)))

\* lines 92-110
CrossTabs ==
    /\ script = "sales" /\ pc = "cross_tabs"
    /\ sales_ct' = CrossTab(summ_wm_fr, "Sales")
    /\ units_ct' = CrossTab(summ_wm_fr, "Units")
    /\ pc' = "analytical"
    /\ UNCHANGED <<run, previous, argsort, script, error, sheet, columns, df, dup_count_before, week_map,
                   df_out, summ_wm_fr, analytical_tbl, prophet_tbl, results,
                   merged_dataset, media, written>>

(***************************************************************************)
(* sales_auto.py: the analytical table.                                    *)
(***************************************************************************)
\* the order of the names in use (strings compare by code point in Python)
Collation == <<"A", "B", "C">>
NameIndex(n) == CHOOSE i \in 1..Len(Collation) : Collation[i] = n
NameLess(a, b) == NameIndex(a) < NameIndex(b)

\* the names of a set, ascending
NamesAscending(S) == SortSeq(SetToSeq(S), NameLess)

\* a cell of the outer join: null for a franchise the crosstab lacks
JoinCell(ct, f, b) == IF f \in DOMAIN ct THEN ct[f][b] ELSE NaN

\* .fillna(0)
FillNa0(x) == IF x = NaN THEN 0 ELSE x

\* Series.replace({0: pd.NA})
ReplaceZero(x) == IF x = 0 THEN NaN ELSE x

\* n / d on Series cells: null when the denominator is null
Divide(n, d) == IF d = NaN THEN NA ELSE Ratio(n, d)

\* TTM / LY, the "- 1" forgotten
GrowthRatioOnly(ttm, ly) == Divide(ttm, ReplaceZero(ly))

\* lines 122-129: (TTM - LY) / LY.replace({0: pd.NA})
Growth(ttm, ly) == Divide(ttm - ly, ReplaceZero(ly))

\* lines 115-129: sales_ct.join(units_ct, how='outer').reset_index().fillna(0),
\* then the two growth columns
AnalyticalRows(sct, uct) ==
    LET index == NamesAscending((DOMAIN sct) \cup (DOMAIN uct))
    IN  [i \in 1..Len(index) |->
           LET f == index[i]
               ly_s == FillNa0(JoinCell(sct, f, "LY"))
               ttm_s == FillNa0(JoinCell(sct, f, "TTM"))
               ly_u == FillNa0(JoinCell(uct, f, "LY"))
               ttm_u == FillNa0(JoinCell(uct, f, "TTM"))
           IN  [Franchise |-> f,
                LY_Sales |-> ly_s, TTM_Sales |-> ttm_s,
                LY_Units |-> ly_u, TTM_Units |-> ttm_u,
                Sales_Growth |-> Growth(ttm_s, ly_s),
                Units_Growth |-> Growth(ttm_u, ly_u),
                CTG |-> NoValue, Distribution |-> NoValue]]

AnalyticalTable ==
    /\ script = "sales" /\ pc = "analytical"
    /\ analytical_tbl' = AnalyticalRows(sales_ct, units_ct)
    /\ pc' = "ctg_distribution"
    /\ UNCHANGED <<run, previous, argsort, script, error, sheet, columns, df, dup_count_before, week_map,
                   df_out, summ_wm_fr, sales_ct, units_ct, prophet_tbl, results,
                   merged_dataset, media, written>>

\* the change over the row's own LY sales instead of the total
CtgOverOwnLy(row, total_LY_sales) ==
    IF total_LY_sales # 0 /\ row.LY_Sales # 0
      THEN Ratio(row.TTM_Sales - row.LY_Sales, row.LY_Sales)
      ELSE NA

\* lines 138-141
Ctg(row, total_LY_sales) ==
    IF total_LY_sales # 0 THEN Ratio(row.TTM_Sales - row.LY_Sales, total_LY_sales)
    ELSE NA

\* the share of LY sales instead of TTM sales
DistributionOfLy(row, total_TTM_sales) ==
    IF total_TTM_sales # 0 THEN Ratio(row.LY_Sales, total_TTM_sales)
    ELSE NA

\* lines 144-147
Distribution(row, total_TTM_sales) ==
    IF total_TTM_sales # 0 THEN Ratio(row.TTM_Sales, total_TTM_sales)
    ELSE NA

\* lines 134-147
WithCtgDistribution(tbl) ==
    LET total_LY_sales == SeqSum(tbl, "LY_Sales")
        total_TTM_sales == SeqSum(tbl, "TTM_Sales")
    IN  [i \in 1..Len(tbl) |->
           [tbl[i] EXCEPT !.CTG = Ctg(tbl[i], total_LY_sales),
                          !.Distribution = Distribution(tbl[i], total_TTM_sales)]]

\* the orders of the rows of tbl
RowOrders(tbl) ==
    {[i \in 1..Len(tbl) |-> tbl[p[i]]] :
        p \in {q \in [1..Len(tbl) -> 1..Len(tbl)] :
                 \A i, j \in 1..Len(tbl) : i # j => q[i] # q[j]}}

\* line 158: sort_values('TTM_Sales', ascending=False). kind defaults to
\* 'quicksort', which does not promise an order among equal keys: every
\* descending order of the rows is a possible outcome.
SortValuesDescending(tbl) ==
    {t \in RowOrders(tbl) :
        \A i \in 1..(Len(t) - 1) : t[i].TTM_Sales >= t[i + 1].TTM_Sales}

\* an argsort that draws the order of equal keys anew at every call
SortValuesAnyOrder(tbl, memo) == SortValuesDescending(tbl)

\* line 158 within one build: the argsort behind sort_values is a function of
\* the array it is given. memo holds what it has returned so far: a table it
\* has sorted before comes out in the same order again, a new table in any
\* descending order.
SortValues(tbl, memo) ==
    IF tbl \in DOMAIN memo THEN {memo[tbl]} ELSE SortValuesDescending(tbl)

\* lines 134-158
CtgDistribution ==
    /\ script = "sales" /\ pc = "ctg_distribution"
    /\ LET unsorted == WithCtgDistribution(analytical_tbl)
       IN  \E sorted \in SortValues(unsorted, argsort) :
              /\ analytical_tbl' = sorted
              /\ argsort' = (unsorted :> sorted) @@ argsort
    /\ pc' = "prophet_tables"
    /\ UNCHANGED <<run, previous, script, error, sheet, columns, df, dup_count_before, week_map,
                   df_out, summ_wm_fr, sales_ct, units_ct, prophet_tbl, results,
                   merged_dataset, media, written>>

(***************************************************************************)
(* sales_auto.py: the Prophet input, the workbooks.                        *)
(***************************************************************************)
\* (Week, Franchise) order of line 176
WeekFranchiseLess(a, b) ==
    \/ a.Week < b.Week
    \/ a.Week = b.Week /\ NameLess(a.Franchise, b.Franchise)

\* lines 164-183: groupby(['Week', 'Franchise']) sums, sorted by Week then
\* Franchise; the Prophet input keeps Week, Franchise, Sum_Units
ProphetTbl(rows) ==
    LET keyed == {r \in rows : r.Franchise # NoName /\ r.Week # NaT}
        keys == {<<r.Week, r.Franchise>> : r \in keyed}
        grp(k) == {r \in keyed : r.Week = k[1] /\ r.Franchise = k[2]}
    IN  SortSeq(SetToSeq({[Week |-> k[1], Franchise |-> k[2],
                           Sum_Units |-> SumSkipNa(grp(k), "Units")] : k \in keys}),
                WeekFranchiseLess)

\* lines 164-185
ProphetTables ==
    /\ script = "sales" /\ pc = "prophet_tables"
    /\ prophet_tbl' = IF RUN_PROPHET_EXPORT THEN ProphetTbl(df_out) ELSE <<>>
    /\ pc' = "write_main"
    /\ UNCHANGED <<run, previous, argsort, script, error, sheet, columns, df, dup_count_before, week_map,
                   df_out, summ_wm_fr, sales_ct, units_ct, analytical_tbl,
                   results, merged_dataset, media, written>>

\* lines 252-274: the main workbook
WriteMain ==
    /\ script = "sales" /\ pc = "write_main"
    /\ written' = written \cup {OUTPUT_XLSX}
    /\ pc' = "write_analytical"
    /\ UNCHANGED <<run, previous, argsort, script, error, sheet, columns, df, dup_count_before, week_map,
                   df_out, summ_wm_fr, sales_ct, units_ct, analytical_tbl,
                   prophet_tbl, results, merged_dataset, media>>

\* lines 280-291: the analytical workbook and the Prophet input workbook
WriteAnalytical ==
    /\ script = "sales" /\ pc = "write_analytical"
    /\ written' = written \cup {OUTPUT_ANALYTICAL}
                          \cup (IF RUN_PROPHET_EXPORT THEN {OUTPUT_PROPHET_IN} ELSE {})
    /\ pc' = IF RUN_PROPHET_MODEL THEN "prophet_model" ELSE "done"
    /\ UNCHANGED <<run, previous, argsort, script, error, sheet, columns, df, dup_count_before, week_map,
                   df_out, summ_wm_fr, sales_ct, units_ct, analytical_tbl,
                   prophet_tbl, results, merged_dataset, media>>

(***************************************************************************)
(* sales_auto.py: Prophet modelling.                                       *)
(***************************************************************************)
\* (ID, ds) order of line 315
IdDsLess(a, b) ==
    \/ NameLess(a.ID, b.ID)
    \/ a.ID = b.ID /\ a.ds < b.ds

\* lines 301-315: ds / ID / y, sorted by ID then ds
Dataset(tbl) ==
    SortSeq([i \in 1..Len(tbl) |->
                [ds |-> tbl[i].Week, ID |-> tbl[i].Franchise, y |-> tbl[i].Sum_Units]],
            IdDsLess)

\* line 318: the franchise ids, in groupby order
FranchiseIds(dataset) == NamesAscending({r.ID : r \in Range(dataset)})

\* the dates of one franchise
GroupDates(dataset, fr_id) == {r.ds : r \in {x \in Range(dataset) : x.ID = fr_id}}

Max(S) == CHOOSE x \in S : \A y \in S : y <= x

\* lines 331-337: what m.predict(m.make_future_dataframe(periods=365)) returns
\* for a fitted franchise: an in-sample prediction for each observed date and an
\* out-of-sample prediction for each day of the horizon. Prophet is not part of
\* the repository: the script takes the rows as they come, so both a horizon
\* that starts after the last observed date and one that starts at it (an
\* out-of-sample prediction overlapping the last in-sample one) are outcomes.
Forecasts(fr_id, dates) ==
    {[ID |-> fr_id, in_sample |-> dates, out_from |-> from,
      out_to |-> Max(dates) + PERIODS] : from \in {Max(dates) + 1, Max(dates)}}

\* lines 322-352: one pass of the loop over franchise_groups. m.fit raises
\* ValueError for a history of fewer than 2 rows, and nothing catches it.
FitFranchise ==
    /\ script = "sales" /\ pc = "prophet_model"
    /\ LET dataset == Dataset(prophet_tbl)
           ids == FranchiseIds(dataset)
       IN  /\ Len(results) < Len(ids)
           /\ LET fr_id == ids[Len(results) + 1]
                  dates == GroupDates(dataset, fr_id)
              IN  \/ /\ Cardinality(dates) < 2
                     /\ Abort("ValueError: Dataframe has less than 2 non-NaN rows.")
                  \/ /\ Cardinality(dates) >= 2
                     /\ \E forecast \in Forecasts(fr_id, dates) :
                           results' = Append(results, forecast)
                     /\ UNCHANGED <<run, previous, argsort, script, pc, error, sheet, columns, df,
                                    dup_count_before, week_map, df_out,
                                    summ_wm_fr, sales_ct, units_ct,
                                    analytical_tbl, prophet_tbl, merged_dataset,
                                    media, written>>

\* the predictions of one forecast for the key (id, ds), in frame order
Predictions(forecast, id, ds) ==
    (IF forecast.ID = id /\ ds \in forecast.in_sample
       THEN <<"in_sample">> ELSE <<>>)
    \o (IF forecast.ID = id /\ forecast.out_from <= ds /\ ds <= forecast.out_to
          THEN <<"out_of_sample">> ELSE <<>>)

\* the rows of all_forecasts that match the key, in order
RECURSIVE Matches(_, _, _)
Matches(all_forecasts, id, ds) ==
    IF all_forecasts = <<>> THEN <<>>
    ELSE Predictions(Head(all_forecasts), id, ds) \o Matches(Tail(all_forecasts), id, ds)

\* the rows a left merge gives for one left row: one per match, or one with
\* null predictions when nothing matches
MergeRow(row, all_forecasts) ==
    LET m == Matches(all_forecasts, row.ID, row.ds)
    IN  IF m = <<>> THEN <<[ID |-> row.ID, ds |-> row.ds, y |-> row.y, yhat |-> NoName]>>
        ELSE [i \in 1..Len(m) |-> [ID |-> row.ID, ds |-> row.ds, y |-> row.y, yhat |-> m[i]]]

\* lines 361-370: dataset.merge(all_forecasts, on=['ID', 'ds'], how='left')
RECURSIVE MergeLeft(_, _)
MergeLeft(dataset, all_forecasts) ==
    IF dataset = <<>> THEN <<>>
    ELSE MergeLeft(SubSeq(dataset, 1, Len(dataset) - 1), all_forecasts)
         \o MergeRow(dataset[Len(dataset)], all_forecasts)

\* lines 355-375: pd.concat(results) raises ValueError when results is empty
MergeForecasts ==
    /\ script = "sales" /\ pc = "prophet_model"
    /\ Len(results) = Len(FranchiseIds(Dataset(prophet_tbl)))
    /\ \/ /\ results = <<>>
          /\ Abort("ValueError: No objects to concatenate")
       \/ /\ results # <<>>
          /\ merged_dataset' = MergeLeft(Dataset(prophet_tbl), results)
          /\ pc' = "write_prophet_out"
          /\ UNCHANGED <<run, previous, argsort, script, error, sheet, columns, df, dup_count_before,
                         week_map, df_out, summ_wm_fr, sales_ct, units_ct,
                         analytical_tbl, prophet_tbl, results, media, written>>

\* lines 378-381
WriteProphetOut ==
    /\ script = "sales" /\ pc = "write_prophet_out"
    /\ written' = written \cup {OUTPUT_PROPHET_OUT}
    /\ pc' = "done"
    /\ UNCHANGED <<run, previous, argsort, script, error, sheet, columns, df, dup_count_before, week_map,
                   df_out, summ_wm_fr, sales_ct, units_ct, analytical_tbl,
                   prophet_tbl, results, merged_dataset, media>>

(***************************************************************************)
(* media_auto.py.                                                          *)
(***************************************************************************)
MediaSheetColumns == {"Week End (Sat)", "Spend", "Impressions", "Franchise", "Partner"}

\* rows of the media sheet
MediaRows ==
    <<[Week |-> Stamp(WeekEnding(1), 1), Spend |-> Num(5), Impressions |-> Num(100),
       Franchise |-> "Blowdry Cream Video", Partner |-> "Meta"],
      [Week |-> Stamp(WeekEnding(2), 0), Spend |-> TextNum, Impressions |-> Num(40),
       Franchise |-> "Prime Day Banner", Partner |-> "Amazon"],
      [Week |-> Text, Spend |-> Num(2), Impressions |-> Num(10),
       Franchise |-> "Biolage - Brand", Partner |-> "Meta"],
      [Week |-> Stamp(WeekEnding(2), 0), Spend |-> Num(1), Impressions |-> Num(0),
       Franchise |-> "Styling", Partner |-> "Google"]>>

\* a media row as read: only the sheet's columns hold values
ReadMediaRow(r, cols) ==
    [Week        |-> IF "Week End (Sat)" \in cols THEN r.Week ELSE NoValue,
     Spend       |-> IF "Spend" \in cols THEN r.Spend ELSE NoValue,
     Impressions |-> IF "Impressions" \in cols THEN r.Impressions ELSE NoValue,
     Franchise   |-> IF "Franchise" \in cols THEN r.Franchise ELSE NoValue,
     Partner     |-> IF "Partner" \in cols THEN r.Partner ELSE NoValue]

\* `"Blowdry Cream" in v`, `"Prime Day" in v`, `contains("- Brand")` on the names in use
ContainsBlowdryCream(v) == v \in {"Blowdry Cream Video"}
ContainsPrimeDay(v) == v \in {"Prime Day Banner"}
ContainsBrand(v) == v \in {"Biolage - Brand"}

\* lines 46-53
map_franchise(value) ==
    IF ContainsBlowdryCream(value) THEN "Styling"
    ELSE IF ContainsPrimeDay(value) THEN "Biolage - Brand"
    ELSE value

\* lines 65-69: Partner + "_Brand" for a brand franchise, else Partner
PartnerTag(r) == IF ContainsBrand(r.Franchise) THEN <<r.Partner, "_Brand">>
                 ELSE <<r.Partner>>

\* lines 21-35: rename the date column, normalize dates, coerce the measures
\* that exist
MediaPrep ==
    /\ script = "media" /\ pc = "media_prep"
    /\ LET cols == IF "Week End (Sat)" \in columns
                     THEN (columns \ {"Week End (Sat)"}) \cup {"Week"} ELSE columns
       IN  /\ columns' = cols
           /\ df' = [i \in 1..Len(df) |->
                       [df[i] EXCEPT
                          !.Week = IF "Week" \in cols THEN ToDatetimeNormalize(@) ELSE @,
                          !.Spend = IF "Spend" \in cols THEN ToNumeric(@) ELSE @,
                          !.Impressions = IF "Impressions" \in cols THEN ToNumeric(@) ELSE @]]
    /\ pc' = "franchise_remap"
    /\ UNCHANGED <<run, previous, argsort, script, error, sheet, dup_count_before, week_map, df_out,
                   summ_wm_fr, sales_ct, units_ct, analytical_tbl, prophet_tbl,
                   results, merged_dataset, media, written>>

\* lines 43-55
FranchiseRemap ==
    /\ script = "media" /\ pc = "franchise_remap"
    /\ \/ /\ "Franchise" \notin columns           \* raise KeyError, line 44
          /\ Abort("KeyError: Expected a 'Franchise' column; check your headers.")
       \/ /\ "Franchise" \in columns
          /\ df' = [i \in 1..Len(df) |->
                      [df[i] EXCEPT !.Franchise = map_franchise(@)]]
          /\ pc' = "partner_tag"
          /\ UNCHANGED <<run, previous, argsort, script, error, sheet, columns, dup_count_before, week_map,
                         df_out, summ_wm_fr, sales_ct, units_ct, analytical_tbl,
                         prophet_tbl, results, merged_dataset, media, written>>

\* lines 62-69
PartnerTagStep ==
    /\ script = "media" /\ pc = "partner_tag"
    /\ \/ /\ "Partner" \notin columns             \* raise KeyError, line 63
          /\ Abort("KeyError: Expected a 'Partner' column; check your headers.")
       \/ /\ "Partner" \in columns
          /\ media' = [Partner_tag |-> [i \in 1..Len(df) |-> PartnerTag(df[i])]]
          /\ columns' = columns \cup {"Partner_tag"}
          /\ pc' = "media_summaries"
          /\ UNCHANGED <<run, previous, argsort, script, error, sheet, df, dup_count_before, week_map,
                         df_out, summ_wm_fr, sales_ct, units_ct, analytical_tbl,
                         prophet_tbl, results, merged_dataset, written>>

\* line 93
NumCols(cols) == {c \in {"Spend", "Impressions"} : c \in cols}

\* the sum of one measure over the rows i of df that satisfy keep
RECURSIVE MediaSum(_, _, _)
MediaSum(rows, idx, col) ==
    IF idx = {} THEN 0
    ELSE LET i == CHOOSE j \in idx : TRUE
         IN  (IF rows[i][col] = NaN THEN 0 ELSE rows[i][col]) + MediaSum(rows, idx \ {i}, col)

\* lines 96-103: groupby('Franchise')[num_cols].sum()
FranchiseSummary(rows, cols) ==
    IF NumCols(cols) = {} THEN {}
    ELSE {[Franchise |-> f,
           sums |-> [c \in NumCols(cols) |->
                       MediaSum(rows, {i \in 1..Len(rows) : rows[i].Franchise = f}, c)]] :
             f \in {rows[i].Franchise : i \in 1..Len(rows)}}

\* lines 76-88: (Partner, Partner) and (Partner, Partner_Brand) for every partner
Skeleton(rows) ==
    UNION {{[Partner |-> rows[i].Partner, Partner_tag |-> <<rows[i].Partner>>],
            [Partner |-> rows[i].Partner, Partner_tag |-> <<rows[i].Partner, "_Brand">>]} :
             i \in 1..Len(rows)}

\* lines 106-127: the sums by (Partner, Partner_tag) on the skeleton, 0 where
\* a skeleton row has no data
PartnerTagSummary(rows, tags, cols) ==
    {[Partner |-> k.Partner, Partner_tag |-> k.Partner_tag,
      sums |-> [c \in NumCols(cols) |->
                  MediaSum(rows, {i \in 1..Len(rows) :
                                    rows[i].Partner = k.Partner /\ tags[i] = k.Partner_tag}, c)]] :
        k \in Skeleton(rows)}

\* lines 76-146: skeleton, summaries, lists
MediaSummaries ==
    /\ script = "media" /\ pc = "media_summaries"
    /\ media' = [Partner_tag |-> media.Partner_tag,
                 franchise_summary |-> FranchiseSummary(df, columns),
                 partner_tag_summary |-> PartnerTagSummary(df, media.Partner_tag, columns),
                 franchise_list |-> {df[i].Franchise : i \in 1..Len(df)}]
    /\ pc' = "media_write"
    /\ UNCHANGED <<run, previous, argsort, script, error, sheet, columns, df, dup_count_before, week_map,
                   df_out, summ_wm_fr, sales_ct, units_ct, analytical_tbl,
                   prophet_tbl, results, merged_dataset, written>>

\* lines 152-168
MediaWrite ==
    /\ script = "media" /\ pc = "media_write"
    /\ written' = written \cup {OUTPUT_MEDIA_FILE}
    /\ pc' = "done"
    /\ UNCHANGED <<run, previous, argsort, script, error, sheet, columns, df, dup_count_before, week_map,
                   df_out, summ_wm_fr, sales_ct, units_ct, analytical_tbl,
                   prophet_tbl, results, merged_dataset, media>>

(***************************************************************************)
(* The specification.                                                      *)
(***************************************************************************)
\* sheets with the required columns, and small sheets with any columns
SalesInputs ==
    {[n |-> n, extra |-> extra, cols |-> cols] :
        n \in WeekCounts, extra \in ExtraSets, cols \in {RequiredColumns}}
    \cup
    {[n |-> 2, extra |-> {}, cols |-> cols] : cols \in SUBSET SheetColumns}

InitSales ==
    /\ script = "sales"
    /\ \E in \in SalesInputs :
          /\ sheet = [columns |-> in.cols, rows |-> ReadExcel(in.n, in.extra, in.cols)]
          /\ columns = in.cols
          /\ df = ReadExcel(in.n, in.extra, in.cols)
    /\ pc = "date_prep"
    /\ error = NoValue
    /\ dup_count_before = 0
    /\ week_map = << >>
    /\ df_out = {}
    /\ summ_wm_fr = {}
    /\ sales_ct = << >>
    /\ units_ct = << >>
    /\ analytical_tbl = << >>
    /\ prophet_tbl = << >>
    /\ results = << >>
    /\ merged_dataset = << >>
    /\ media = << >>
    /\ written = {}
    /\ run = 1
    /\ previous = << >>
    /\ argsort = << >>

\* media sheets: any set of columns, any leading rows
InitMedia ==
    /\ script = "media"
    /\ \E cols \in SUBSET MediaSheetColumns, n \in 0..Len(MediaRows) :
          LET rows == [i \in 1..n |-> ReadMediaRow(MediaRows[i], cols)]
          IN  /\ sheet = [columns |-> cols, rows |-> rows]
              /\ columns = cols
              /\ df = rows
    /\ pc = "media_prep"
    /\ error = NoValue
    /\ dup_count_before = 0
    /\ week_map = << >>
    /\ df_out = {}
    /\ summ_wm_fr = {}
    /\ sales_ct = << >>
    /\ units_ct = << >>
    /\ analytical_tbl = << >>
    /\ prophet_tbl = << >>
    /\ results = << >>
    /\ merged_dataset = << >>
    /\ media = << >>
    /\ written = {}
    /\ run = 1
    /\ previous = << >>
    /\ argsort = << >>

Init == InitSales \/ InitMedia

\* the script is invoked again over the same input snapshot. The new process
\* starts from line 1: every variable of the script is new and df is read from
\* the input workbook again; what is left of the invocation before are the
\* workbooks it wrote. previous keeps the tables it ended with.
Rerun ==
    /\ pc \in {"done", "aborted"}
    /\ run < MaxRuns
    /\ run' = run + 1
    /\ previous' = [error |-> error, sales_ct |-> sales_ct, units_ct |-> units_ct,
                    analytical_tbl |-> analytical_tbl, media |-> media]
    /\ pc' = IF script = "sales" THEN "date_prep" ELSE "media_prep"
    /\ df' = sheet.rows
    /\ columns' = sheet.columns
    /\ error' = NoValue
    /\ dup_count_before' = 0
    /\ week_map' = << >>
    /\ df_out' = {}
    /\ summ_wm_fr' = {}
    /\ sales_ct' = << >>
    /\ units_ct' = << >>
    /\ analytical_tbl' = << >>
    /\ prophet_tbl' = << >>
    /\ results' = << >>
    /\ merged_dataset' = << >>
    /\ media' = << >>
    /\ UNCHANGED <<script, sheet, written, argsort>>

Next ==
    \/ DatePrep
    \/ NumericHygiene
    \/ WeekMapping
    \/ Subset
    \/ SummarizeStep
    \/ CrossTabs
    \/ AnalyticalTable
    \/ CtgDistribution
    \/ ProphetTables
    \/ WriteMain
    \/ WriteAnalytical
    \/ FitFranchise
    \/ MergeForecasts
    \/ WriteProphetOut
    \/ MediaPrep
    \/ FranchiseRemap
    \/ PartnerTagStep
    \/ MediaSummaries
    \/ MediaWrite
    \/ Rerun

Spec == Init /\ [][Next]_vars

(***************************************************************************)
(* Properties.                                                             *)
(***************************************************************************)
\* the week mapping has run
Mapped == script = "sales" /\ "Week Mapping" \in columns

\* the distinct non-null week values of the frame
DistinctWeeks == {r.Week : r \in df} \ {NaT}

\* the rank of a week among weeks, 1 for the most recent
RankOf(weeks, wk) == Cardinality({v \in weeks : v >= wk})

\* the rule of the classifier for bucket sizes t and l
RankRule(weeks, t, l) ==
    \A wk \in weeks :
        LET r == RankOf(weeks, wk)
        IN  week_map[wk] = (IF r <= t THEN "TTM" ELSE IF r <= t + l THEN "LY" ELSE "PY")

BucketAge(b) == CASE b = "TTM" -> 0 [] b = "LY" -> 1 [] b = "PY" -> 2

\* C9: every distinct week has exactly one bucket; the rows of the frame
\* carry one (bucket, Include flag) pair per week value, whatever their
\* franchise, the bucket being the week's and the flag Include exactly for TTM
\* and LY; and no more recent week is in an older bucket than a less recent one.
C9_BucketAssignment ==
    Mapped =>
        LET weeks == DistinctWeeks
        IN  /\ \A wk \in weeks :
                  /\ wk \in DOMAIN week_map
                  /\ week_map[wk] \in {"TTM", "LY", "PY"}
            /\ Cardinality({<<r.Week, r.WeekMapping, r.Include>> : r \in df})
                  = Cardinality({r.Week : r \in df})
            /\ \A r \in df :
                  /\ r.Week # NaT => r.WeekMapping = week_map[r.Week]
                  /\ r.Include = (IF r.WeekMapping \in {"TTM", "LY"}
                                    THEN "Include" ELSE "Exclude")
            /\ \A newer, older \in {"TTM", "LY", "PY"} :
                  BucketAge(newer) < BucketAge(older) =>
                      \A w1 \in {w \in weeks : week_map[w] = older} :
                          \A w2 \in {w \in weeks : week_map[w] = newer} : w1 < w2

\* C9 witness: two rows of different franchises share a week, and the weeks
\* fall in more than one bucket
C9_Witness ==
    /\ Mapped
    /\ \E r1, r2 \in df : r1.Week = r2.Week /\ r1.Week # NaT
                          /\ r1.Franchise # r2.Franchise
    /\ \E w1, w2 \in DistinctWeeks : week_map[w1] # week_map[w2]

\* the exceptions of the forecasting stage
ForecastErrors == {"ValueError: Dataframe has less than 2 non-NaN rows.",
                   "ValueError: No objects to concatenate"}

\* the analytical table has been built (lines 115-129 have run)
AnalyticalBuilt ==
    /\ script = "sales"
    /\ \/ pc \in {"ctg_distribution", "prophet_tables", "write_main",
                  "write_analytical", "prophet_model", "write_prophet_out", "done"}
       \/ pc = "aborted" /\ error \in ForecastErrors

\* CTG, Distribution and the final sort are done (lines 134-158 have run)
MetricsBuilt == AnalyticalBuilt /\ pc # "ctg_distribution"

\* the included records that name a franchise, as flagged in the frame
IncludedRecords == {r \in df : r.Include = "Include" /\ r.Franchise # NoName}

\* C2: the analytical table and both crosstabs have exactly one row per
\* distinct franchise of the included (TTM or LY) records, none for a franchise
\* that occurs only in excluded records; the four columns are never null and
\* hold 0 for a bucket in which the franchise has no included record.
C2_CrosstabRows ==
    AnalyticalBuilt =>
        LET included == IncludedRecords
            franchises == {r.Franchise : r \in included}
            observed(f, b) == \E r \in included : r.Franchise = f /\ r.WeekMapping = b
        IN  /\ Len(analytical_tbl) = Cardinality(franchises)
            /\ {analytical_tbl[i].Franchise : i \in 1..Len(analytical_tbl)} = franchises
            /\ DOMAIN sales_ct = franchises
            /\ DOMAIN units_ct = franchises
            /\ \A i \in 1..Len(analytical_tbl) :
                  LET row == analytical_tbl[i]
                  IN  /\ NaN \notin {row.LY_Sales, row.TTM_Sales, row.LY_Units, row.TTM_Units}
                      /\ (~observed(row.Franchise, "LY") =>
                             row.LY_Sales = 0 /\ row.LY_Units = 0)
                      /\ (~observed(row.Franchise, "TTM") =>
                             row.TTM_Sales = 0 /\ row.TTM_Units = 0)

\* C2 witness: a table built from a frame in which one franchise occurs only
\* in excluded (PY) records and another has included records but none in LY
C2_Witness ==
    /\ AnalyticalBuilt
    /\ \E r \in df : /\ r.Franchise # NoName
                     /\ r.WeekMapping = "PY"
                     /\ r.Franchise \notin {x.Franchise : x \in IncludedRecords}
    /\ \E i \in 1..Len(analytical_tbl) :
          /\ analytical_tbl[i].LY_Sales = 0
          /\ analytical_tbl[i].TTM_Sales > 0
          /\ ~\E r \in IncludedRecords : /\ r.Franchise = analytical_tbl[i].Franchise
                                         /\ r.WeekMapping = "LY"

\* the ratio g is the exact value of n / d
IsQuotient(g, n, d) == g.den # 0 /\ g.num * d = n * g.den

\* C5: Sales_Growth is (TTM_Sales - LY_Sales) / LY_Sales when LY_Sales # 0
\* and null exactly when LY_Sales = 0, likewise Units_Growth with the units;
\* and whatever the growth, once the metrics are built the row's Distribution
\* is TTM_Sales over the total TTM sales when that total is not 0.
C5_Growth ==
    AnalyticalBuilt =>
        \A i \in 1..Len(analytical_tbl) :
            LET row == analytical_tbl[i]
            IN  /\ (row.LY_Sales = 0 <=> row.Sales_Growth = NA)
                /\ (row.LY_Sales # 0 =>
                       IsQuotient(row.Sales_Growth, row.TTM_Sales - row.LY_Sales, row.LY_Sales))
                /\ (row.LY_Units = 0 <=> row.Units_Growth = NA)
                /\ (row.LY_Units # 0 =>
                       IsQuotient(row.Units_Growth, row.TTM_Units - row.LY_Units, row.LY_Units))
                /\ (MetricsBuilt /\ SeqSum(analytical_tbl, "TTM_Sales") # 0 =>
                       IsQuotient(row.Distribution, row.TTM_Sales,
                                  SeqSum(analytical_tbl, "TTM_Sales")))

\* C5 witness: the metrics are built, one row has LY_Sales = 0, TTM_Sales > 0,
\* a null growth and a Distribution, and another row has a growth
C5_Witness ==
    /\ MetricsBuilt
    /\ \E i, j \in 1..Len(analytical_tbl) :
          /\ analytical_tbl[i].LY_Sales = 0
          /\ analytical_tbl[i].TTM_Sales > 0
          /\ analytical_tbl[i].Sales_Growth = NA
          /\ analytical_tbl[i].Distribution # NA
          /\ analytical_tbl[j].LY_Sales # 0
          /\ analytical_tbl[j].Sales_Growth # NA
          /\ analytical_tbl[j].LY_Units # 0

\* a column of the analytical table
Column(col) == [i \in 1..Len(analytical_tbl) |-> analytical_tbl[i][col]]

\* C6: when the total LY sales are not 0 every row's CTG is (TTM_Sales -
\* LY_Sales) over that total, so when the total is positive the CTG values sum
\* to (total TTM - total LY) / total LY; when the total is 0 every CTG is null.
C6_Ctg ==
    MetricsBuilt =>
        LET total_ly == SeqSum(analytical_tbl, "LY_Sales")
            total_ttm == SeqSum(analytical_tbl, "TTM_Sales")
        IN  /\ (total_ly # 0 =>
                   \A i \in 1..Len(analytical_tbl) :
                       IsQuotient(analytical_tbl[i].CTG,
                                  analytical_tbl[i].TTM_Sales - analytical_tbl[i].LY_Sales,
                                  total_ly))
            /\ (total_ly > 0 =>
                   IsQuotient(RatSum(Column("CTG")), total_ttm - total_ly, total_ly))
            /\ (total_ly = 0 =>
                   \A i \in 1..Len(analytical_tbl) : analytical_tbl[i].CTG = NA)

\* C6 witness: several rows, a positive LY total, rows with different CTG
C6_Witness ==
    /\ MetricsBuilt
    /\ SeqSum(analytical_tbl, "LY_Sales") > 0
    /\ \E i, j \in 1..Len(analytical_tbl) :
          /\ analytical_tbl[i].CTG # analytical_tbl[j].CTG
          /\ analytical_tbl[i].LY_Sales > 0
          /\ analytical_tbl[j].LY_Sales > 0

\* C7: when the total TTM sales are not 0 every row's Distribution is
\* TTM_Sales over that total, so when the total is positive the Distribution
\* values sum to 1; when the total is 0 every Distribution is null.
C7_Distribution ==
    MetricsBuilt =>
        LET total_ttm == SeqSum(analytical_tbl, "TTM_Sales")
        IN  /\ (total_ttm # 0 =>
                   \A i \in 1..Len(analytical_tbl) :
                       IsQuotient(analytical_tbl[i].Distribution,
                                  analytical_tbl[i].TTM_Sales, total_ttm))
            /\ (total_ttm > 0 => RatSum(Column("Distribution")) = [num |-> 1, den |-> 1])
            /\ (total_ttm = 0 =>
                   \A i \in 1..Len(analytical_tbl) : analytical_tbl[i].Distribution = NA)

\* C7 witness: several rows with different shares of a positive TTM total, one
\* of them with LY sales
C7_Witness ==
    /\ MetricsBuilt
    /\ SeqSum(analytical_tbl, "TTM_Sales") > 0
    /\ \E i, j \in 1..Len(analytical_tbl) :
          /\ analytical_tbl[i].Distribution # analytical_tbl[j].Distribution
          /\ analytical_tbl[i].TTM_Sales > 0
          /\ analytical_tbl[j].TTM_Sales > 0
          /\ analytical_tbl[j].LY_Sales > 0

\* the position of a franchise in the crosstab, before the sort
CrosstabPosition(f) ==
    LET before == AnalyticalRows(sales_ct, units_ct)
    IN  CHOOSE k \in 1..Len(before) : before[k].Franchise = f

\* C8: the rows are in non-increasing TTM_Sales order, and rows with equal
\* TTM_Sales keep the relative order they had in the crosstab
C8_SortedStable ==
    MetricsBuilt =>
        \A i, j \in 1..Len(analytical_tbl) :
            i < j =>
                /\ analytical_tbl[i].TTM_Sales >= analytical_tbl[j].TTM_Sales
                /\ (analytical_tbl[i].TTM_Sales = analytical_tbl[j].TTM_Sales =>
                       CrosstabPosition(analytical_tbl[i].Franchise)
                         < CrosstabPosition(analytical_tbl[j].Franchise))

\* the franchises of the Prophet input with fewer than 2 week points, and
\* those with at least 2
ShortFranchises ==
    LET dataset == Dataset(prophet_tbl)
    IN  {f \in {r.ID : r \in Range(dataset)} : Cardinality(GroupDates(dataset, f)) < 2}
FittableFranchises ==
    LET dataset == Dataset(prophet_tbl)
    IN  {f \in {r.ID : r \in Range(dataset)} : Cardinality(GroupDates(dataset, f)) >= 2}

\* C3: a franchise with fewer than 2 week points does not abort the run: it
\* is skipped, and once the loop is over the forecast output holds a row with
\* null predictions for each of its points and a predicted row for every point
\* of every franchise with at least 2 points.
C3_ShortFranchiseSkipped ==
    (script = "sales" /\ ShortFranchises # {} /\ FittableFranchises # {}) =>
        /\ pc # "aborted"
        /\ (pc \in {"write_prophet_out", "done"} =>
               \A i \in 1..Len(merged_dataset) :
                   (merged_dataset[i].yhat = NoName)
                       <=> (merged_dataset[i].ID \in ShortFranchises))

\* C4: the merged forecast output has exactly one row per distinct
\* (franchise, week) key of the included records, each carrying the in-sample
\* prediction, also when the forecast holds more than one prediction for a key.
C4_CardinalityPreserving ==
    (script = "sales" /\ pc \in {"write_prophet_out", "done"}) =>
        LET keys == {<<r.Franchise, r.Week>> : r \in IncludedRecords}
        IN  /\ Len(merged_dataset) = Cardinality(keys)
            /\ {<<merged_dataset[i].ID, merged_dataset[i].ds>> :
                   i \in 1..Len(merged_dataset)} = keys
            /\ \A i \in 1..Len(merged_dataset) : merged_dataset[i].yhat = "in_sample"

\* the stages of sales_auto.py before the first group-by, and of media_auto.py
\* before its summaries
BeforeAggregation == {"date_prep", "numeric", "week_mapping", "subset", "aborted"}
BeforeMediaSummaries == {"media_prep", "franchise_remap", "partner_tag", "aborted"}

CrosstabsBuilt == AnalyticalBuilt \/ (script = "sales" /\ pc = "analytical")

\* the state of sales_auto.py after its load, as far as the sheet decides it
FreshFromSheet ==
    /\ df = sheet.rows /\ columns = sheet.columns
    /\ error = NoValue /\ dup_count_before = 0 /\ week_map = << >>
    /\ df_out = {} /\ summ_wm_fr = {}
    /\ sales_ct = << >> /\ units_ct = << >> /\ analytical_tbl = << >>
    /\ prophet_tbl = << >> /\ results = << >> /\ merged_dataset = << >>

====
